---- MODULE Spec2Model ----
(***************************************************************************)
(* A model of the externis event-timeline tracker (src/tracking.cc) and of *)
(* the callbacks that drive it (src/externis.cc).                          *)
(*                                                                         *)
(* Strings are sequences of one-character strings, so that starts_with and *)
(* substr work on characters as the C++ does.  Timestamps are integers     *)
(* (int64_t nanoseconds; the model's clock stays far below 2^63).          *)
(***************************************************************************)
EXTENDS Integers, Sequences, FiniteSets, TLC

(***************************************************************************)
(* Bounds of the model.                                                    *)
(***************************************************************************)
MaxClock == 2
MaxRegs == 3
MaxDepth == 2
MaxFuncs == 3
MaxPasses == 3
MaxMixed == 2

(***************************************************************************)
(* Values.                                                                 *)
(***************************************************************************)
\* A null pointer (const char *, cpp_reader *, opt_pass *).
nullptr == <<"nullptr">>

CIRCULAR_POISON_VALUE == <<"CIRCULAR_POISON_VALUE_95d6021c">>

CommandLine == <<"<command-line>">>

\* What an out-of-bounds read of the empty preprocessing stack may yield
\* besides the name of a file.
Garbage == <<"garbage">>

\* Absolute canonical paths, as realpath() returns them.
FilePaths ==
    { <<"/", "a", "/", "b">>, <<"/", "b", "/", "b">>,
      <<"/", "a", "b", "/", "b">>, <<"/", "a">>, <<"/", "b">> }

DirPaths == { <<"/", "a">>, <<"/", "b">> }

VARIABLES
    now,                          \* the last reading of ns_from_start()
    status,                       \* "running" | "finalized" | "crashed" | "undefined"
    preprocess_start,
    preprocess_end,
    preprocessing_stack,
    last_function_parsed_ts,
    last_pass,
    pass_events,
    file_to_include_directory,
    normalized_files_map,
    normalized_files,
    conflicted_files,
    scope_events,
    function_events,
    did_last_function_have_scope,
    events,                       \* the trace buffer add_event appends to
    obs                           \* what the caller has done so far (observation only)

normVars ==
    <<file_to_include_directory, normalized_files_map, normalized_files,
      conflicted_files>>

fileVars == <<preprocess_start, preprocess_end, preprocessing_stack>>

passVars == <<last_pass, pass_events>>

funcVars == <<scope_events, function_events, did_last_function_have_scope>>

vars ==
    <<now, status, fileVars, last_function_parsed_ts, passVars, normVars,
      funcVars, events, obs>>

(***************************************************************************)
(* Maps (map_t) are functions whose domain is the set of keys present.     *)
(***************************************************************************)
EmptyMap == <<>>

Count(m, k) == k \in DOMAIN m

Put(m, k, v) == [x \in (DOMAIN m) \cup {k} |-> IF x = k THEN v ELSE m[x]]

(***************************************************************************)
(* Path Normalizer.                                                        *)
(***************************************************************************)
\* std::equal over match's characters with check.size() >= match.size().
starts_with(check, match) ==
    /\ Len(check) >= Len(match)
    /\ \A i \in 1..Len(match) : match[i] = check[i]

\* std::string::substr(pos): throws std::out_of_range when pos > size().
SubstrThrows(s, pos) == pos > Len(s)

Substr(s, pos) == [i \in 1..(Len(s) - pos) |-> s[i + pos]]

\* The normalizer's state as a record, so that the operators below can be
\* applied by register_include_location and by start_preprocess_file alike.
NormState ==
    [ dirs |-> file_to_include_directory,
      map |-> normalized_files_map,
      seen |-> normalized_files,
      conflicted |-> conflicted_files,
      thrown |-> FALSE ]

\* The body of register_include_location for a file not seen before.
RegisterNew(n, file_name, dir_name) ==
    LET dirs1 == Put(n.dirs, file_name, dir_name)
        folder_std == dirs1[file_name]
    IN  IF starts_with(file_name, folder_std)
        THEN IF SubstrThrows(file_name, Len(folder_std) + 1)
             THEN [n EXCEPT !.dirs = dirs1, !.thrown = TRUE]
             ELSE LET normalized_file ==
                          Substr(file_name, Len(folder_std) + 1)
                  IN  [n EXCEPT
                         !.dirs = dirs1,
                         !.map = Put(n.map, file_name, normalized_file),
                         !.seen = IF normalized_file \in n.seen
                                  THEN n.seen
                                  ELSE n.seen \cup {normalized_file},
                         !.conflicted =
                             IF normalized_file \in n.seen
                             THEN n.conflicted \cup {normalized_file}
                             ELSE n.conflicted]
        ELSE [n EXCEPT !.dirs = dirs1]

\* As RegisterIn, without the test for a file already registered.
RegisterIn_Unguarded(n, file_name, dir_name) ==
    RegisterNew(n, file_name, dir_name)

\* register_include_location applied to normalizer state n.
RegisterIn(n, file_name, dir_name) ==
    IF Count(n.dirs, file_name)
    THEN n
    ELSE RegisterNew(n, file_name, dir_name)

\* normalized_file_name over the maps m (normalized_files_map) and c
\* (conflicted_files).
NormalizedIn(m, c, file_name) ==
    IF Count(m, file_name) /\ m[file_name] \notin c
    THEN m[file_name]
    ELSE file_name

normalized_file_name(file_name) ==
    NormalizedIn(normalized_files_map, conflicted_files, file_name)

\* The effect of a register call on the module's variables; an exception
\* leaving the plugin callback ends the process.
ApplyRegister(file_name, dir_name) ==
    LET n == RegisterIn(NormState, file_name, dir_name)
    IN  /\ file_to_include_directory' = n.dirs
        /\ normalized_files_map' = n.map
        /\ normalized_files' = n.seen
        /\ conflicted_files' = n.conflicted
        /\ status' = IF n.thrown THEN "crashed" ELSE status


(***************************************************************************)
(* Preprocessing Stack Tracker.                                            *)
(***************************************************************************)
\* The names enter_file is called with, and the cpp_reader it comes with.
TrackedFiles == { <<"/", "a", "/", "b">>, <<"/", "b", "/", "b">> }

EnterNames == TrackedFiles \cup {CommandLine, nullptr}

Reader == <<"cpp_reader">>

\* cpp_get_dir(cpp_get_file(cpp_get_buffer(pfile)))->name after realpath():
\* the search directory the file was found in, here the directory holding it.
RECURSIVE DirName(_)
DirName(path) ==
    IF Len(path) <= 1 THEN <<"/">>
    ELSE IF path[Len(path)] = "/" THEN SubSeq(path, 1, Len(path) - 1)
    ELSE DirName(SubSeq(path, 1, Len(path) - 1))

IncludeDirs(file_name) == {DirName(file_name)}

\* std::stack: the top is the last element.
Top(stack) == stack[Len(stack)]

Pop(stack) == SubSeq(stack, 1, Len(stack) - 1)

\* The tracker's state as a record: both maps, the stack and the shared cursor.
FileState ==
    [ start |-> preprocess_start,
      end |-> preprocess_end,
      stack |-> preprocessing_stack,
      cursor |-> last_function_parsed_ts ]

\* The test of start_preprocess_file for a circular include.
IsCircular(s, file_name) ==
    Count(s.start, file_name) /\ ~Count(s.end, file_name)

\* The identity start_preprocess_file pushes for file_name.
PushedName(s, file_name) ==
    IF IsCircular(s, file_name) THEN CIRCULAR_POISON_VALUE ELSE file_name

\* start_preprocess_file past its early return, up to the push.
StartPreprocessIn(s, file_name, t) ==
    LET name == PushedName(s, file_name)
    IN  [s EXCEPT
           !.start = IF Count(s.start, name) THEN s.start
                     ELSE Put(s.start, name, t),
           !.stack = Append(s.stack, name)]

\* As RecordEnd, writing the end whether or not one is recorded.
RecordEnd_Overwrite(s, top, t) ==
    [s EXCEPT !.end = Put(s.end, top, t), !.cursor = t + 3]

\* end_preprocess_file reading top as the top of the stack.
RecordEnd(s, top, t) ==
    [s EXCEPT
       !.end = IF Count(s.end, top) THEN s.end ELSE Put(s.end, top, t),
       !.cursor = t + 3]

\* end_preprocess_file on a stack that is not empty.
EndPreprocessIn(s, t) ==
    [RecordEnd(s, Top(s.stack), t) EXCEPT !.stack = Pop(s.stack)]

RECURSIVE DrainOutcomes(_, _)

\* As DrainOutcomes, leaving the loop after its first round.
DrainOutcomes_OneRound(s, t0) ==
    IF s.stack = <<>>
    THEN {[st |-> s, now |-> t0, rounds |-> 0]}
    ELSE UNION { { [st |-> [EndPreprocessIn(s, t1) EXCEPT !.cursor = t2],
                    now |-> t2, rounds |-> 1]
                   : t2 \in t1..MaxClock }
                 : t1 \in t0..MaxClock }

\* As DrainOutcomes, writing the cursor once even when the stack is empty.
DrainOutcomes_StampsEmpty(s, t0) ==
    IF s.stack = <<>>
    THEN {[st |-> [s EXCEPT !.cursor = t0], now |-> t0, rounds |-> 0]}
    ELSE UNION { UNION { { [o EXCEPT !.rounds = @ + 1]
                           : o \in DrainOutcomes(
                                 [EndPreprocessIn(s, t1) EXCEPT !.cursor = t2],
                                 t2) }
                         : t2 \in t1..MaxClock }
                 : t1 \in t0..MaxClock }

\* finish_preprocessing_stage: every way the loop can run from state s when
\* the clock read last gave t0.  Each round reads the clock twice; rounds
\* counts the end_preprocess_file calls made.
DrainOutcomes(s, t0) ==
    IF s.stack = <<>>
    THEN {[st |-> s, now |-> t0, rounds |-> 0]}
    ELSE UNION { UNION { { [o EXCEPT !.rounds = @ + 1]
                           : o \in DrainOutcomes(
                                 [EndPreprocessIn(s, t1) EXCEPT !.cursor = t2],
                                 t2) }
                         : t2 \in t1..MaxClock }
                 : t1 \in t0..MaxClock }

SetFileState(s) ==
    /\ preprocess_start' = s.start
    /\ preprocess_end' = s.end
    /\ preprocessing_stack' = s.stack
    /\ last_function_parsed_ts' = s.cursor

(***************************************************************************)
(* Trace events.                                                           *)
(***************************************************************************)
NoArgs == [present |-> FALSE, map |-> EmptyMap]

TraceEvent(name, category, ts, args) ==
    [name |-> name, category |-> category, ts |-> ts, args |-> args]

\* The keys of a map in the order the loop of write_preprocessing_events
\* visits them (map_t fixes one; which one is not observable here).
RECURSIVE KeySeq(_)
KeySeq(keys) ==
    IF keys = {} THEN <<>>
    ELSE LET k == CHOOSE x \in keys : TRUE
         IN  <<k>> \o KeySeq(keys \ {k})

\* The events write_preprocessing_events adds after its drain.
PreprocessEventsOf(keys, start, end, m, c) ==
    [i \in 1..Len(keys) |->
        TraceEvent(NormalizedIn(m, c, keys[i]), "PREPROCESS",
                   [start |-> start[keys[i]], end |-> end[keys[i]]], NoArgs)]

\* As EmittedFiles, without the skip of the sentinel.
EmittedFiles_NoSkip(start) == DOMAIN start

EmittedFiles(start) == (DOMAIN start) \ {CIRCULAR_POISON_VALUE}

\* preprocess_end.at(file) throws for a file with no end.
AtThrows(start, end) == \E f \in EmittedFiles(start) : ~Count(end, f)

write_preprocessing_events(s) ==
    PreprocessEventsOf(KeySeq(EmittedFiles(s.start)), s.start, s.end,
                       normalized_files_map, conflicted_files)

(***************************************************************************)
(* Pass Tracker.                                                           *)
(***************************************************************************)
\* opt_pass objects, named by their address; the fields read from them.
Passes == { <<"pass1">>, <<"pass2">> }

PassName(pass) == IF pass = <<"pass1">> THEN <<"c", "f", "g">> ELSE <<"d", "c", "e">>

PassTypeTag(pass) == IF pass = <<"pass1">> THEN "GIMPLE_PASS" ELSE "RTL_PASS"

PassNumber(pass) == IF pass = <<"pass1">> THEN 7 ELSE 12

pass_type(type) ==
    CASE type = "GIMPLE_PASS" -> "GIMPLE_PASS"
      [] type = "RTL_PASS" -> "RTL_PASS"
      [] type = "SIMPLE_IPA_PASS" -> "SIMPLE_IPA_PASS"
      [] type = "IPA_PASS" -> "IPA_PASS"
      [] OTHER -> "UNKNOWN"

Digits == <<"0", "1", "2", "3", "4", "5", "6", "7", "8", "9">>

\* std::to_string of a non-negative int.
RECURSIVE to_string(_)
to_string(n) ==
    IF n < 10 THEN <<Digits[n + 1]>>
    ELSE to_string(n \div 10) \o <<Digits[(n % 10) + 1]>>

\* As StartOptPassIn, appending the accumulator even when no pass is open.
StartOptPassIn_AlwaysAppend(lp, pe, pass, t) ==
    LET closed == [lp EXCEPT !.ts.end = t]
    IN  [ last_pass |-> [pass |-> pass,
                         ts |-> [start |-> t + 1, end |-> closed.ts.end]],
          pass_events |-> Append(pe, closed) ]

\* start_opt_pass on the accumulator lp and the pending list pe.
StartOptPassIn(lp, pe, pass, t) ==
    LET closed == [lp EXCEPT !.ts.end = t]
    IN  [ last_pass |-> [pass |-> pass,
                         ts |-> [start |-> t + 1, end |-> closed.ts.end]],
          pass_events |-> IF closed.pass # nullptr THEN Append(pe, closed)
                          ELSE pe ]

write_opt_pass_events(pe) ==
    [i \in 1..Len(pe) |->
        TraceEvent(PassName(pe[i].pass), pass_type(PassTypeTag(pe[i].pass)),
                   pe[i].ts,
                   [present |-> TRUE,
                    map |-> Put(EmptyMap, "static_pass_number",
                                to_string(PassNumber(pe[i].pass)))])]

(***************************************************************************)
(* Scope/Function Tracker.                                                 *)
(***************************************************************************)
Foo == <<"F", "o", "o">>

Bar == <<"B", "a", "r">>

\* The enclosing scopes cb_finish_parse_function finds: none, a namespace,
\* a struct or union.
ScopeInputs ==
    { <<nullptr, "UNKNOWN">>, <<Foo, "NAMESPACE">>, <<Bar, "STRUCT">> }

FunctionInfos ==
    { [name |-> <<"f">>, file_name |-> <<"/", "a", "/", "b">>,
       scope_name |-> sc[1], scope_type |-> sc[2]] : sc \in ScopeInputs }

\* As FunctionSpan, starting at the cursor itself.
FunctionSpan_NoGap(cursor, t) == [start |-> cursor, end |-> t]

\* TimeSpan ts{last_function_parsed_ts + 3, now}.
FunctionSpan(cursor, t) == [start |-> cursor + 3, end |-> t]

\* As ExtendsScope, without the comparison of the scope names.
ExtendsScope_AnyName(scopes, flag, info) ==
    /\ scopes # <<>>
    /\ flag

\* Whether end_parse_function extends the last scope event.
ExtendsScope(scopes, flag, info) ==
    /\ scopes # <<>>
    /\ flag
    /\ scopes[Len(scopes)].name = info.scope_name

\* As ScopeFlag, never clearing the flag once it is set.
ScopeFlag_Kept(flag, info) == flag \/ info.scope_name # nullptr

\* did_last_function_have_scope after end_parse_function.
ScopeFlag(flag, info) == info.scope_name # nullptr

\* As ScopeStep, opening a new scope event at the cursor (ts.start - 3).
ScopeStep_FromCursor(scopes, flag, info, ts) ==
    IF info.scope_name # nullptr
    THEN IF ExtendsScope(scopes, flag, info)
         THEN [scopes EXCEPT ![Len(scopes)].ts.end = ts.end + 1]
         ELSE Append(scopes,
                     [name |-> info.scope_name, type |-> info.scope_type,
                      ts |-> [start |-> ts.start - 3, end |-> ts.end + 1]])
    ELSE scopes

\* The scope events after end_parse_function for a function of span ts.
ScopeStep(scopes, flag, info, ts) ==
    IF info.scope_name # nullptr
    THEN IF ExtendsScope(scopes, flag, info)
         THEN [scopes EXCEPT ![Len(scopes)].ts.end = ts.end + 1]
         ELSE Append(scopes,
                     [name |-> info.scope_name, type |-> info.scope_type,
                      ts |-> [start |-> ts.start - 1, end |-> ts.end + 1]])
    ELSE scopes

write_all_scopes(scopes) ==
    [i \in 1..Len(scopes) |->
        TraceEvent(scopes[i].name, scopes[i].type, scopes[i].ts, NoArgs)]

write_all_functions(funcs, m, c) ==
    [i \in 1..Len(funcs) |->
        TraceEvent(funcs[i].name, "FUNCTION", funcs[i].ts,
                   [present |-> TRUE,
                    map |-> Put(EmptyMap, "file",
                                NormalizedIn(m, c, funcs[i].file_name))])]

(***************************************************************************)
(* The state after construction: globals are zero-initialized.             *)
(***************************************************************************)
Init ==
    /\ now = 0
    /\ status = "running"
    /\ preprocess_start = EmptyMap
    /\ preprocess_end = EmptyMap
    /\ preprocessing_stack = <<>>
    /\ last_function_parsed_ts = 0
    /\ last_pass = [pass |-> nullptr, ts |-> [start |-> 0, end |-> 0]]
    /\ pass_events = <<>>
    /\ file_to_include_directory = EmptyMap
    /\ normalized_files_map = EmptyMap
    /\ normalized_files = {}
    /\ conflicted_files = {}
    /\ scope_events = <<>>
    /\ function_events = <<>>
    /\ did_last_function_have_scope = FALSE
    /\ events = <<>>
    /\ obs = [ open |-> 0, wellnested |-> TRUE, underflowed |-> FALSE,
               entered |-> {}, reentered |-> FALSE, scope_of |-> <<>>,
               pass_calls |-> <<>>,
               last_call |-> [op |-> "none", arg |-> <<>>] ]

Called(op, arg) == [op |-> op, arg |-> arg]

(***************************************************************************)
(* register(file_path, include_root_dir), called on its own.               *)
(***************************************************************************)
Register(file_name, dir_name) ==
    /\ status = "running"
    /\ Cardinality(DOMAIN file_to_include_directory) < MaxRegs
    /\ ApplyRegister(file_name, dir_name)
    /\ obs' = [obs EXCEPT !.last_call =
                  Called("register",
                         <<file_name, dir_name,
                           Count(file_to_include_directory, file_name)>>)]
    /\ UNCHANGED <<now, fileVars, last_function_parsed_ts, passVars, funcVars,
                   events>>

register_include_location ==
    \E file_name \in FilePaths, dir_name \in DirPaths :
        Register(file_name, dir_name)

(***************************************************************************)
(* enter_file(path).                                                       *)
(***************************************************************************)
\* The part of start_preprocess_file after the push: resolve the include
\* directory and register it.  realpath() may fail for either path.
ResolveAndRegister(file_name, pfile) ==
    IF pfile # nullptr
    THEN \E real_dir_name \in IncludeDirs(file_name) \cup {nullptr},
            real_file_name \in {file_name, nullptr} :
            IF real_dir_name # nullptr /\ real_file_name # nullptr
            THEN ApplyRegister(real_file_name, real_dir_name)
            ELSE UNCHANGED <<normVars, status>>
    ELSE UNCHANGED <<normVars, status>>

EnterFile(file_name, pfile, t) ==
    /\ status = "running"
    /\ Len(preprocessing_stack) < MaxDepth
    /\ obs.open < MaxDepth
    /\ now' = t
    /\ IF file_name = nullptr \/ file_name = CommandLine
       THEN UNCHANGED <<fileVars, last_function_parsed_ts, normVars, status>>
       ELSE /\ SetFileState(StartPreprocessIn(FileState, file_name, t))
            /\ ResolveAndRegister(
                   file_name,
                   IF IsCircular(FileState, file_name) THEN nullptr ELSE pfile)
    /\ obs' = [obs EXCEPT
                 !.open = IF file_name = nullptr THEN @ ELSE @ + 1,
                 !.entered = IF file_name = nullptr THEN @
                             ELSE @ \cup {file_name},
                 !.reentered =
                     @ \/ \E i \in 1..Len(preprocessing_stack) :
                              preprocessing_stack[i] = file_name]
    /\ UNCHANGED <<passVars, funcVars, events>>

start_preprocess_file ==
    \E file_name \in EnterNames, pfile \in {nullptr, Reader},
       t \in now..MaxClock :
        EnterFile(file_name, pfile, t)

\* cb_start_compilation (PLUGIN_START_UNIT): before any file change is
\* delivered, the main input file is entered with no cpp_reader.
main_input_filename == <<"/", "a", "/", "b">>

cb_start_compilation ==
    /\ preprocess_start = EmptyMap
    /\ \E t \in now..MaxClock : EnterFile(main_input_filename, nullptr, t)

(***************************************************************************)
(* leave_file().                                                           *)
(***************************************************************************)
\* What top() of the empty stack may read.
GarbageNames == TrackedFiles \cup {CIRCULAR_POISON_VALUE, Garbage}

LeaveObs(how) ==
    [obs EXCEPT
       !.open = IF @ > 0 THEN @ - 1 ELSE 0,
       !.wellnested = @ /\ obs.open > 0,
       !.underflowed = @ \/ how # "ok"]

end_preprocess_file ==
    /\ status = "running"
    /\ \E t \in now..MaxClock :
         /\ now' = t
         /\ \/ /\ preprocessing_stack # <<>>
               /\ SetFileState(EndPreprocessIn(FileState, t))
               /\ obs' = LeaveObs("ok")
               /\ UNCHANGED status
            \* top() and pop() of an empty std::stack are undefined: the
            \* process dies there, ...
            \/ /\ preprocessing_stack = <<>>
               /\ status' = "crashed"
               /\ obs' = LeaveObs("died")
               /\ UNCHANGED <<fileVars, last_function_parsed_ts>>
            \* ... or it goes on with whatever top() read.  What the
            \* process does after that is not defined either, and is not
            \* followed further.
            \/ /\ preprocessing_stack = <<>>
               /\ \E top \in GarbageNames :
                    SetFileState(RecordEnd(FileState, top, t))
               /\ status' = "undefined"
               /\ obs' = LeaveObs("went on")
    /\ UNCHANGED <<passVars, normVars, funcVars, events>>

(***************************************************************************)
(* drain_open_files().                                                     *)
(***************************************************************************)
finish_preprocessing_stage ==
    /\ status = "running"
    /\ \E o \in DrainOutcomes(FileState, now) :
         /\ SetFileState(o.st)
         /\ now' = o.now
    /\ obs' = [obs EXCEPT !.wellnested = FALSE]
    /\ UNCHANGED <<status, passVars, normVars, funcVars, events>>

(***************************************************************************)
(* enter_pass(identity).                                                   *)
(***************************************************************************)
start_opt_pass ==
    /\ status = "running"
    /\ Len(obs.pass_calls) < MaxPasses
    /\ \E pass \in Passes, t \in now..MaxClock :
         LET r == StartOptPassIn(last_pass, pass_events, pass, t)
         IN  /\ now' = t
             /\ last_pass' = r.last_pass
             /\ pass_events' = r.pass_events
             /\ obs' = [obs EXCEPT
                          !.pass_calls = Append(@, [pass |-> pass, at |-> t])]
    /\ UNCHANGED <<status, fileVars, last_function_parsed_ts, normVars,
                   funcVars, events>>

(***************************************************************************)
(* finish_function(name, file, scope_name, scope_category).                *)
(***************************************************************************)
end_parse_function ==
    /\ status = "running"
    /\ Len(function_events) < MaxFuncs
    /\ \E info \in FunctionInfos, t \in now..MaxClock :
         LET ts == FunctionSpan(last_function_parsed_ts, t)
         IN  /\ now' = t
             /\ last_function_parsed_ts' = t
             /\ function_events' =
                    Append(function_events,
                           [name |-> info.name, file_name |-> info.file_name,
                            ts |-> ts])
             /\ scope_events' =
                    ScopeStep(scope_events, did_last_function_have_scope,
                              info, ts)
             /\ did_last_function_have_scope' =
                    ScopeFlag(did_last_function_have_scope, info)
             /\ obs' = [obs EXCEPT
                          !.scope_of = Append(@, <<info.scope_name,
                                                   info.scope_type>>)]
    /\ UNCHANGED <<status, fileVars, passVars, normVars, events>>

(***************************************************************************)
(* finalize(): write_all_events drains, then emits in the order            *)
(* preprocessing, passes, scopes, functions.                               *)
(***************************************************************************)
add_events(buffer, new) == buffer \o new

write_all_events ==
    /\ status = "running"
    /\ \E o \in DrainOutcomes(FileState, now) :
         /\ SetFileState(o.st)
         /\ now' = o.now
         /\ IF AtThrows(o.st.start, o.st.end)
            THEN /\ status' = "crashed"
                 /\ UNCHANGED events
            ELSE /\ status' = "finalized"
                 /\ events' =
                        add_events(
                          add_events(
                            add_events(
                              add_events(events,
                                         write_preprocessing_events(o.st)),
                              write_opt_pass_events(pass_events)),
                            write_all_scopes(scope_events)),
                          write_all_functions(function_events,
                                              normalized_files_map,
                                              conflicted_files))
    /\ UNCHANGED <<passVars, normVars, funcVars, obs>>

(***************************************************************************)
(* Specifications.                                                         *)
(***************************************************************************)
\* The Path Normalizer, driven by register calls alone.
NextNorm == register_include_location

SpecNorm == Init /\ [][NextNorm]_vars

\* The Preprocessing Stack Tracker up to finalization.
NextFiles ==
    \/ start_preprocess_file
    \/ end_preprocess_file
    \/ finish_preprocessing_stage
    \/ write_all_events

SpecFiles == Init /\ [][NextFiles]_vars

\* The Pass Tracker up to finalization.
NextPass ==
    \/ start_opt_pass
    \/ write_all_events

SpecPass == Init /\ [][NextPass]_vars

\* The Scope/Function Tracker, with the file operations that move the cursor
\* it shares with the Preprocessing Stack Tracker.
NextFuncs ==
    \/ end_parse_function
    \/ cb_start_compilation
    \/ end_preprocess_file
    \/ finish_preprocessing_stage
    \/ write_all_events

SpecFuncs == Init /\ [][NextFuncs]_vars

\* The three trackers side by side: passes and functions, at most MaxMixed
\* of them together, around the main input file being entered, left and
\* drained.
MixedBudget == Len(function_events) + Len(obs.pass_calls) < MaxMixed

MixedPass == MixedBudget /\ start_opt_pass

MixedFunction == MixedBudget /\ end_parse_function

NextTrackers ==
    \/ MixedPass
    \/ MixedFunction
    \/ cb_start_compilation
    \/ end_preprocess_file
    \/ finish_preprocessing_stage

SpecTrackers == Init /\ [][NextTrackers]_vars

\* Every operation.
Next ==
    \/ register_include_location
    \/ cb_start_compilation
    \/ start_preprocess_file
    \/ end_preprocess_file
    \/ finish_preprocessing_stage
    \/ start_opt_pass
    \/ end_parse_function
    \/ write_all_events

Spec == Init /\ [][Next]_vars

(***************************************************************************)
(* Properties.                                                             *)
(***************************************************************************)
\* The events of the trace buffer of one category, in buffer order.
EmittedOf(category) == SelectSeq(events, LAMBDA e : e.category = category)

SpanOk(ts) == ts.start <= ts.end

\* The file names the caller has entered, the sentinel aside.
EnteredFiles == obs.entered \ {CIRCULAR_POISON_VALUE}

\* C1: a well-nested sequence of enter_file/leave_file calls runs through
\* (the process neither dies nor runs into undefined behaviour), and once it
\* is balanced and finalized the number of PREPROCESS events equals the
\* number of distinct non-sentinel file names entered, each with
\* start <= end.
C1_PreprocessCount ==
    obs.wellnested =>
        /\ status \notin {"crashed", "undefined"}
        /\ (status = "finalized" /\ obs.open = 0) =>
               /\ Len(EmittedOf("PREPROCESS")) = Cardinality(EnteredFiles)
               /\ \A i \in 1..Len(EmittedOf("PREPROCESS")) :
                      SpanOk(EmittedOf("PREPROCESS")[i].ts)

\* C2: the FUNCTION events emitted at finalization are strictly ordered in
\* time: a later one starts strictly later and ends strictly later than
\* every earlier one.
C2_FunctionsStrictlyOrdered ==
    status = "finalized" =>
        \A i, j \in 1..Len(EmittedOf("FUNCTION")) :
            i < j =>
                /\ EmittedOf("FUNCTION")[i].ts.start
                       < EmittedOf("FUNCTION")[j].ts.start
                /\ EmittedOf("FUNCTION")[i].ts.end
                       < EmittedOf("FUNCTION")[j].ts.end

\* C3: every span a tracker has recorded (function events, scope events,
\* closed pass events, and the start and end kept for a file) has
\* start <= end.
C3_SpansOrdered ==
    /\ \A i \in 1..Len(function_events) : SpanOk(function_events[i].ts)
    /\ \A i \in 1..Len(scope_events) : SpanOk(scope_events[i].ts)
    /\ \A i \in 1..Len(pass_events) : SpanOk(pass_events[i].ts)
    /\ \A f \in (DOMAIN preprocess_start) \cap (DOMAIN preprocess_end) :
           preprocess_start[f] <= preprocess_end[f]

\* The number of PREPROCESS events emitted under the name file_name
\* resolves to.
PreprocessEventsFor(file_name) ==
    Cardinality({ i \in 1..Len(events) :
                    /\ events[i].category = "PREPROCESS"
                    /\ events[i].name = normalized_file_name(file_name) })

\* C4: once a file has been entered while it was open on the stack, the
\* process dies only where leave_file found the stack empty, and
\* finalization ends with an empty stack, at most one PREPROCESS event for
\* each file and none for the sentinel.
C4_CircularInclude ==
    obs.reentered =>
        /\ status = "crashed" => obs.underflowed
        /\ status = "finalized" =>
               /\ preprocessing_stack = <<>>
               /\ PreprocessEventsFor(CIRCULAR_POISON_VALUE) = 0
               /\ \A f \in TrackedFiles : PreprocessEventsFor(f) <= 1

\* C4 witness: a finalized run in which a file was entered while open, with
\* that file's single event in the buffer.
C4_Witness ==
    /\ obs.reentered
    /\ Count(preprocess_start, CIRCULAR_POISON_VALUE)
    /\ status = "finalized"
    /\ \E f \in TrackedFiles : PreprocessEventsFor(f) = 1

RegisteredFiles == DOMAIN file_to_include_directory

\* What holds of the registered files in C5: files whose computed display
\* names are equal both resolve to their own paths, and no two registered
\* files resolve to the same name.
C5_Resolved ==
    /\ \A f1, f2 \in DOMAIN normalized_files_map :
           (f1 # f2 /\ normalized_files_map[f1] = normalized_files_map[f2])
               => /\ normalized_file_name(f1) = f1
                  /\ normalized_file_name(f2) = f2
    /\ \A f1, f2 \in RegisteredFiles :
           f1 # f2 => normalized_file_name(f1) # normalized_file_name(f2)

\* C5: after every register call, two files with equal computed display
\* names both resolve to their own paths, a display name marked conflicted
\* stays marked, and no two distinct registered files resolve to the same
\* name.
C5_ConflictsPermanent ==
    [][conflicted_files \subseteq conflicted_files' /\ C5_Resolved']_vars

\* C8: a registered file has a display name stored exactly when its path
\* begins with the include root followed by "/", the display name is the
\* path with that prefix stripped, a file without one resolves to its own
\* path, and no register call ends the process.
C8_PrefixCheck ==
    /\ status # "crashed"
    /\ \A f \in RegisteredFiles :
           LET prefix == file_to_include_directory[f] \o <<"/">>
           IN  IF starts_with(f, prefix)
               THEN /\ Count(normalized_files_map, f)
                    /\ normalized_files_map[f] = Substr(f, Len(prefix))
               ELSE /\ ~Count(normalized_files_map, f)
                    /\ normalized_file_name(f) = f

\* C9: a register call for a file path that is already registered, with
\* any include root, changes nothing in the normalizer and does not end the
\* process.
C9_RegisterIdempotent ==
    [][\A f \in FilePaths, d \in DirPaths :
          (Register(f, d) /\ Count(file_to_include_directory, f))
              => UNCHANGED <<normVars, status>>]_vars

\* C9 witness: the last call registered an already registered file again
\* under another include root, and the root stored is still the first one.
C9_Witness ==
    /\ obs.last_call.op = "register"
    /\ obs.last_call.arg[3]
    /\ file_to_include_directory[obs.last_call.arg[1]] # obs.last_call.arg[2]
    /\ Count(normalized_files_map, obs.last_call.arg[1])

\* The scope events the calls so far should have left, going by the calls
\* alone: scope_of[i] is the scope of the i-th finish_function call and
\* funcs[i] the function event it produced.
RECURSIVE ExpectedScopes(_, _, _)
ExpectedScopes(funcs, scope_of, n) ==
    IF n = 0 THEN <<>>
    ELSE LET before == ExpectedScopes(funcs, scope_of, n - 1)
             name == scope_of[n][1]
         IN  IF name = nullptr THEN before
             ELSE IF n > 1 /\ scope_of[n - 1][1] = name
             THEN [before EXCEPT ![Len(before)].ts.end = funcs[n].ts.end + 1]
             ELSE Append(before,
                         [name |-> name, type |-> scope_of[n][2],
                          ts |-> [start |-> funcs[n].ts.start - 1,
                                  end |-> funcs[n].ts.end + 1]])

\* C6: the scope events are one per maximal run of consecutive
\* finish_function calls with the same non-null scope name, each spanning
\* from the start of the run's first function - 1 to the end of its last
\* function + 1 and tagged with the category given where the run began.
C6_ScopeCoalescing ==
    /\ Len(obs.scope_of) = Len(function_events)
    /\ scope_events =
           ExpectedScopes(function_events, obs.scope_of, Len(function_events))

\* C6 witness: Foo, Foo, Bar has left two scope events, the first spanning
\* the first two functions.
C6_Witness ==
    /\ Len(obs.scope_of) = 3
    /\ obs.scope_of[1][1] = Foo
    /\ obs.scope_of[2][1] = Foo
    /\ obs.scope_of[3][1] = Bar
    /\ Len(scope_events) = 2
    /\ scope_events[1].ts.start = function_events[1].ts.start - 1
    /\ scope_events[1].ts.end = function_events[2].ts.end + 1
    /\ scope_events[2].type = "STRUCT"

PassCategories ==
    {"GIMPLE_PASS", "RTL_PASS", "SIMPLE_IPA_PASS", "IPA_PASS", "UNKNOWN"}

\* The pass events of the trace buffer, in buffer order.
EmittedPasses == SelectSeq(events, LAMBDA e : e.category \in PassCategories)

\* C7: n >= 1 enter_pass calls and finalization emit exactly n - 1 pass
\* events, the i-th named after the i-th pass entered and ending at the
\* timestamp of the (i+1)-th enter_pass call.
C7_PassEvents ==
    (status = "finalized" /\ Len(obs.pass_calls) >= 1) =>
        /\ Len(EmittedPasses) = Len(obs.pass_calls) - 1
        /\ \A i \in 1..Len(EmittedPasses) :
               /\ EmittedPasses[i].name = PassName(obs.pass_calls[i].pass)
               /\ EmittedPasses[i].ts.end = obs.pass_calls[i + 1].at

\* C7 witness: three enter_pass calls, finalized with two pass events.
C7_Witness ==
    /\ status = "finalized"
    /\ Len(obs.pass_calls) = 3
    /\ Len(EmittedPasses) = 2

\* The scope name given to the n-th finish_function call.
ScopeNameOf(scope_of, n) == scope_of[n][1]

\* C11: a finish_function call with no enclosing scope leaves the scope
\* events unchanged and clears the flag, and a scoped call that directly
\* follows an unscoped one appends a scope event of its own and leaves every
\* earlier scope event as it was, whatever its name.
C11_UnscopedBreaksRun ==
    [][Len(obs'.scope_of) = Len(obs.scope_of) + 1 =>
          LET n == Len(obs'.scope_of)
          IN  /\ ScopeNameOf(obs'.scope_of, n) = nullptr =>
                     /\ scope_events' = scope_events
                     /\ did_last_function_have_scope' = FALSE
              /\ (/\ n > 1
                  /\ ScopeNameOf(obs'.scope_of, n) # nullptr
                  /\ ScopeNameOf(obs'.scope_of, n - 1) = nullptr) =>
                     /\ Len(scope_events') = Len(scope_events) + 1
                     /\ SubSeq(scope_events', 1, Len(scope_events))
                            = scope_events
                     /\ did_last_function_have_scope']_vars

\* C11 witness: Foo, unscoped, Foo has left two scope events for Foo, the
\* first still ending at the end of the first function + 1.
C11_Witness ==
    /\ Len(obs.scope_of) = 3
    /\ ScopeNameOf(obs.scope_of, 1) = Foo
    /\ ScopeNameOf(obs.scope_of, 2) = nullptr
    /\ ScopeNameOf(obs.scope_of, 3) = Foo
    /\ Len(scope_events) = 2
    /\ scope_events[1].name = Foo
    /\ scope_events[2].name = Foo
    /\ scope_events[1].ts.end = function_events[1].ts.end + 1
    /\ did_last_function_have_scope

\* C10: a leave_file call that finds the stack empty ends the process at
\* once and changes neither map, nor the stack, nor the cursor.
C10_LeaveOnEmptyFailsFast ==
    [][(end_preprocess_file /\ preprocessing_stack = <<>>)
          => (status' = "crashed"
              /\ UNCHANGED <<fileVars, last_function_parsed_ts>>)]_vars

\* Every key of map m is a key of map m2 with the same value.
KeepsEntries(m, m2) ==
    \A k \in DOMAIN m : Count(m2, k) /\ m2[k] = m[k]

\* C12: a start or an end recorded for a file name is never changed or
\* removed by a later enter_file, leave_file, drain or finalization.
C12_FirstStartFirstEnd ==
    [][/\ KeepsEntries(preprocess_start, preprocess_start')
       /\ KeepsEntries(preprocess_end, preprocess_end')]_vars

\* C12 witness: one file, entered at 0 and left at 1, has been entered and
\* left a second time (the cursor stands at the second leave, 2, plus 3)
\* and still has start 0 and end 1.
C12_Witness ==
    /\ status = "running"
    /\ preprocessing_stack = <<>>
    /\ DOMAIN preprocess_start = {main_input_filename}
    /\ preprocess_start[main_input_filename] = 0
    /\ Count(preprocess_end, main_input_filename)
    /\ preprocess_end[main_input_filename] = 1
    /\ now = 2
    /\ last_function_parsed_ts = 5

\* C13: from every stack depth, a drain stops after exactly depth leave
\* steps with the stack empty and an end recorded for every identity that
\* has a start, so that the end lookup of finalization succeeds; the
\* process dies only where leave_file found the stack empty, and a
\* finalized run has an empty stack, an end for every start and one
\* PREPROCESS event for every file other than the sentinel.
C13_DrainCloses ==
    /\ status = "running" =>
           \A o \in DrainOutcomes(FileState, now) :
               /\ o.rounds = Len(preprocessing_stack)
               /\ o.st.stack = <<>>
               /\ DOMAIN o.st.start \subseteq DOMAIN o.st.end
               /\ ~AtThrows(o.st.start, o.st.end)
    /\ status = "crashed" => obs.underflowed
    /\ status = "finalized" =>
           /\ preprocessing_stack = <<>>
           /\ DOMAIN preprocess_start \subseteq DOMAIN preprocess_end
           /\ Len(EmittedOf("PREPROCESS"))
                  = Cardinality(EmittedFiles(preprocess_start))

\* C13 witness: two files were entered, neither was left, and finalization
\* has emitted an event for each.
C13_Witness ==
    /\ status = "finalized"
    /\ obs.open = 2
    /\ obs.entered = TrackedFiles
    /\ Len(EmittedOf("PREPROCESS")) = 2

\* Whether identity name is on the stack.
OnStack(stack, name) == \E i \in 1..Len(stack) : stack[i] = name

\* C14: in every state, a file has a recorded start and no recorded end
\* exactly when it is on the preprocessing stack, and no identity other
\* than the sentinel is on the stack more than once.
C14_OpenIffOnStack ==
    status = "running" =>
        /\ \A f \in TrackedFiles :
               IsCircular(FileState, f) <=> OnStack(preprocessing_stack, f)
        /\ \A i, j \in 1..Len(preprocessing_stack) :
               (i < j /\ preprocessing_stack[i] = preprocessing_stack[j])
                   => preprocessing_stack[i] = CIRCULAR_POISON_VALUE

\* C15: every enter_file call with a path pushes exactly one identity, so
\* that while the calls are well nested the depth of the stack is the
\* number of enter_file calls not yet matched by a leave_file.
C15_EnterPushesOne ==
    (status = "running" /\ obs.wellnested) =>
        Len(preprocessing_stack) = obs.open

\* C16: a finish_function step appends exactly one function event, from
\* the cursor + 3 to the clock reading of the call, and leaves the cursor at
\* that reading; a leave_file on a stack that is not empty leaves the cursor
\* at its clock reading + 3, a drain of a stack that is not empty at its
\* last clock reading, and no other step moves the cursor.
C16_FunctionSpanFromCursor ==
    [][/\ Len(function_events') # Len(function_events) =>
              /\ end_parse_function
              /\ Len(function_events') = Len(function_events) + 1
              /\ SubSeq(function_events', 1, Len(function_events))
                     = function_events
              /\ function_events'[Len(function_events')].ts
                     = [start |-> last_function_parsed_ts + 3, end |-> now']
              /\ last_function_parsed_ts' = now'
       /\ Len(function_events') = Len(function_events) =>
              /\ function_events' = function_events
              /\ ~end_parse_function
       /\ (Len(function_events') = Len(function_events)
              /\ last_function_parsed_ts' # last_function_parsed_ts) =>
              \/ /\ last_function_parsed_ts' = now' + 3
                 /\ end_preprocess_file
              \/ /\ last_function_parsed_ts' = now'
                 /\ preprocessing_stack # <<>>
                 /\ finish_preprocessing_stage \/ write_all_events
       /\ (preprocessing_stack # <<>> /\ preprocessing_stack' = <<>>) =>
              \/ last_function_parsed_ts' = now' + 3 /\ end_preprocess_file
              \/ last_function_parsed_ts' = now'
                    /\ (finish_preprocessing_stage \/ write_all_events)]_vars

\* C16 witness: three function events; the second starts 3 after the end
\* of the first, and the third, with a leave_file before it, 6 or more
\* after the end of the second.
C16_Witness ==
    /\ Len(function_events) = 3
    /\ function_events[1].ts.start = 3
    /\ function_events[2].ts.start = function_events[1].ts.end + 3
    /\ function_events[3].ts.start >= function_events[2].ts.end + 6
    /\ last_function_parsed_ts = function_events[3].ts.end
    /\ Count(preprocess_end, main_input_filename)

\* The two boundary values of a span.
Boundaries(ts) == {ts.start, ts.end}

\* C17: in the pending list each pass event starts at the end of the one
\* before it plus 1, and no two pass events overlap or share a boundary
\* value: an earlier one ends before a later one starts, and their
\* boundary values are all different.
C17_PassesSequential ==
    /\ \A i \in 1..(Len(pass_events) - 1) :
           pass_events[i + 1].ts.start = pass_events[i].ts.end + 1
    /\ \A i, j \in 1..Len(pass_events) :
           i < j =>
               /\ pass_events[i].ts.end < pass_events[j].ts.start
               /\ Boundaries(pass_events[i].ts)
                      \cap Boundaries(pass_events[j].ts) = {}

\* C18: in every state each scope event of the list starts strictly after
\* the end of every scope event before it.
C18_ScopesDisjoint ==
    \A i, j \in 1..Len(scope_events) :
        i < j => scope_events[i].ts.end < scope_events[j].ts.start

\* C18 witness: two scope events as close as they get, the second starting
\* 1 after the end of the first, in a run in which a file was left as well.
C18_Witness ==
    /\ Len(scope_events) = 2
    /\ scope_events[2].ts.start = scope_events[1].ts.end + 1
    /\ Count(preprocess_end, main_input_filename)

\* C19: enter_pass changes nothing but the pass accumulator and the pending
\* pass list; finish_function changes nothing but the function list, the
\* scope list, the scope flag and the cursor; enter_file and leave_file
\* change no function, scope or pass record; a drain of an empty stack
\* changes nothing, the cursor and the clock reading included.
C19_TrackersIndependent ==
    [][/\ start_opt_pass =>
              UNCHANGED <<status, fileVars, last_function_parsed_ts, normVars,
                          funcVars, events>>
       /\ end_parse_function =>
              UNCHANGED <<status, fileVars, passVars, normVars, events>>
       /\ (start_preprocess_file \/ cb_start_compilation
              \/ end_preprocess_file) =>
              UNCHANGED <<passVars, funcVars, events>>
       /\ (finish_preprocessing_stage /\ preprocessing_stack = <<>>) =>
              UNCHANGED <<now, status, fileVars, last_function_parsed_ts,
                          passVars, normVars, funcVars, events>>]_vars

\* C19 witness: a pass is open, a scoped function is recorded, the main
\* file has been entered and left, the cursor still stands at that leave
\* (its clock reading + 3), and a drain has run on the empty stack.
C19_Witness ==
    /\ status = "running"
    /\ last_pass.pass # nullptr
    /\ Len(function_events) = 1
    /\ Len(scope_events) = 1
    /\ Count(preprocess_end, main_input_filename)
    /\ preprocessing_stack = <<>>
    /\ last_function_parsed_ts = now + 3
    /\ ~obs.wellnested

====
